---- MODULE Spec2Model ----
(***************************************************************************)
(* The TendermintX operator (src/bin/tendermintx.rs): the continuous loop  *)
(* `run` and the one-shot `create_proof`, together with the three          *)
(* collaborators they talk to (bridge contract, header source, proof       *)
(* network).  Every `.await` of the source is a step of its own, so the    *)
(* contract and the source chain may move between two reads of one cycle.  *)
(* u64 values are scaled down to 0..MaxU64 and keep their wrap-around.     *)
(***************************************************************************)
EXTENDS Integers, Sequences, FiniteSets, TLC

\* ---------------------------------------------------------------- bounds
\* The largest value of the (scaled-down) unsigned word standing for u64.
MaxU64 == 3
\* Number of distinct non-zero header hashes.
NumHashes == 2
\* How many times the environment (other parties) may change the contract
\* or the chain during one run.
MaxEnvSteps == 1
\* The attempt counter saturates here.
MaxAttempts == 2

Modulus == MaxU64 + 1
U64 == 0 .. MaxU64

\* bytes32(0): what the contract's mapping returns for a height never stored.
ZeroHash == 0
Hashes == 1 .. NumHashes
HashValues == 0 .. NumHashes

\* Markers outside every value range.
\* A local variable that is not (or no longer) in scope.
Unset == 0 - 1
\* Outcome of an arithmetic operation that aborts (overflow checks on).
ArithPanic == 0 - 2
\* Outcome of a header fetch that fails inside the collaborator.
FetchPanic == 0 - 3
\* Outcome of a failed parse of a positional argument.
ParsePanic == 0 - 4

NoRequest == [kind |-> "none"]

VARIABLES
    mode,                   \* "loop" (run) or "manual" (create_proof)
    pc,                     \* position of the operator
    contract_latest_block,  \* BridgeContract.latestBlock
    contract_header_hash,   \* BridgeContract.blockHeightToHeaderHash
    contract_skip_max,      \* BridgeContract.SKIP_MAX
    chain_head,             \* height of the source chain's latest header
    env_steps,              \* environment changes so far
    skip_max,               \* run: let skip_max
    current_block,          \* run / create_proof: let current_block
    expected_header,        \* is_consistent: expected_header_bytes
    contract_current_header,\* is_consistent: contract_current_header
    latest_block,           \* run: let latest_block
    max_end_block,          \* run: let max_end_block
    target_block,           \* run / create_proof: let target_block
    trusted_hash,           \* create_proof argument
    current_block_input,    \* create_proof argument
    target_block_input,     \* create_proof argument
    entry,                  \* how the behaviour starts: "main" (the process
                            \* entry), "run" or "create_proof" (the method
                            \* called on an operator)
    args,                   \* main: the positional arguments
    settings,               \* the required settings in the environment
    submission,             \* the request handed to the proof network in
                            \* this cycle (loop) or invocation (manual)
    attempts,               \* calls of submit_platform_request in this cycle
    slept,                  \* the loop has slept since its last attempt
    after_failure,          \* this iteration follows a failed submission
    calls,                  \* collaborator methods called in this cycle
    log                     \* log lines emitted in this cycle (by kind)

vars == << mode, pc, contract_latest_block, contract_header_hash,
           contract_skip_max, chain_head, env_steps, skip_max, current_block,
           expected_header, contract_current_header, latest_block,
           max_end_block, target_block, trusted_hash, current_block_input,
           target_block_input, entry, args, settings, submission,
           attempts, slept, after_failure, calls, log >>

env_vars == << contract_latest_block, contract_header_hash,
               contract_skip_max, chain_head, env_steps >>
start_vars == << entry, args, settings >>
input_vars == << trusted_hash, current_block_input, target_block_input,
                 start_vars >>
check_vars == << expected_header, contract_current_header >>

\* ------------------------------------------------------------ collaborators
\* The header hash of the source chain at height h (the chain is append-only).
ChainHash(h) == 1 + (h % NumHashes)

\* HeaderSource.signed_header_at: the hash at h, or a failure inside the
\* collaborator (the caller has no error path: run uses the value directly).
get_signed_header_from_number(h) ==
    IF h <= chain_head THEN {ChainHash(h), FetchPanic} ELSE {FetchPanic}

\* HeaderSource.latest_signed_header: the head height, or a failure.
get_latest_signed_header == {chain_head, FetchPanic}

\* TargetBlockSelector: a height in (start_block, max_end_block]; the policy
\* inside the interval is the collaborator's.  The result is a u64: when the
\* interval is empty there is no in-range value to return and the selector
\* still respects its upper bound.
find_block_to_request(start_block, max_end) ==
    IF start_block < max_end
    THEN (start_block + 1) .. max_end
    ELSE 0 .. max_end

\* ------------------------------------------------------------- arithmetic
\* u64 addition: exact, or on overflow an abort (debug) or wrap (release).
AddU64(a, b) ==
    IF a + b > MaxU64 THEN {ArithPanic, (a + b) % Modulus} ELSE {a + b}

\* u64 subtraction: exact, or on underflow an abort or wrap.
SubU64(a, b) ==
    IF a < b THEN {ArithPanic, (a - b + Modulus) % Modulus} ELSE {a - b}

Min(a, b) == IF a <= b THEN a ELSE b

\* ---------------------------------------------------------- request builder
\* Two digits, most significant first: the big-endian image of a u64.
ByteBase == CHOOSE b \in 1 .. Modulus :
               /\ b * b >= Modulus
               /\ \A c \in 1 .. (b - 1) : c * c < Modulus
U64BE(n) == << n \div ByteBase, n % ByteBase >>

\* StepInputTuple::abi_encode_packed(&(trusted_block, trusted_header_hash))
StepInput(trusted, hash) == U64BE(trusted) \o << hash >>

SkipInput_TargetFirst(trusted, hash, target) ==
    U64BE(target) \o << hash >> \o U64BE(trusted)

\* SkipInputTuple::abi_encode_packed(&(trusted, hash, target))
SkipInput(trusted, hash, target) ==
    U64BE(trusted) \o << hash >> \o U64BE(target)

StepRequest(trusted, hash) ==
    [ kind          |-> "Step",
      chain_id      |-> "CHAIN_ID",
      address       |-> "CONTRACT_ADDRESS",
      function_data |-> [call |-> "step", args |-> << trusted >>],
      function_id   |-> "STEP_FUNCTION_ID",
      input         |-> StepInput(trusted, hash) ]

SkipRequest(trusted, hash, target) ==
    [ kind          |-> "Skip",
      chain_id      |-> "CHAIN_ID",
      address       |-> "CONTRACT_ADDRESS",
      function_data |-> [call |-> "skip", args |-> << trusted, target >>],
      function_id   |-> "SKIP_FUNCTION_ID",
      input         |-> SkipInput(trusted, hash, target) ]

\* request_step_2, lines 116-131: the payloads handed to
\* submit_platform_request, from (trusted_hash, trusted_block).
StepRequest_2(hash, trusted) ==
    [ kind          |-> "Step",
      chain_id      |-> "CHAIN_ID",
      address       |-> "CONTRACT_ADDRESS",
      function_data |-> [call |-> "step", args |-> << trusted >>],
      function_id   |-> "STEP_FUNCTION_ID",
      input         |-> StepInput(trusted, hash) ]

\* request_skip_2, lines 166-190: the payloads handed to
\* submit_platform_request, from (trusted_hash, trusted_block, target_block).
SkipRequest_2(hash, trusted, target) ==
    [ kind          |-> "Skip",
      chain_id      |-> "CHAIN_ID",
      address       |-> "CONTRACT_ADDRESS",
      function_data |-> [call |-> "skip", args |-> << trusted, target >>],
      function_id   |-> "SKIP_FUNCTION_ID",
      input         |-> SkipInput(trusted, hash, target) ]

Submission(req, trusted, target) ==
    [ kind |-> req.kind, request |-> req, by |-> mode,
      trusted_block |-> trusted, target_block |-> target ]

Bump(n) == IF n < MaxAttempts THEN n + 1 ELSE n

\* --------------------------------------------------------------- settings
\* The environment the operator is constructed from: every setting present and
\* well-formed; one missing; a malformed CONTRACT_ADDRESS, CHAIN_ID,
\* STEP_FUNCTION_ID, SKIP_FUNCTION_ID or ETHEREUM_RPC_URL; a malformed
\* SUCCINCT_RPC_URL or SUCCINCT_API_KEY.
Settings == {"valid", "missing", "malformed", "malformed_proof_network"}

\* new and get_config, lines 44-85: env::var(..).expect for every setting,
\* and parse / hex::decode / from_slice / try_from with expect for the
\* address, the chain id, the function ids and the Ethereum endpoint.
RejectedByExpect(s) == s \in {"missing", "malformed"}

\* new, line 54: the proof-network endpoint and key are handed to
\* SuccinctClient::new as they are; whether that constructor rejects them is
\* the client library's choice.
ClientRejects(s) ==
    IF s = "malformed_proof_network" THEN BOOLEAN ELSE {FALSE}

\* The proof network answers Ok only to a well-configured client.
SubmitCanSucceed == settings = "valid"

\* ------------------------------------------------------- process arguments
\* A positional argument is a decimal u64 literal or the hex text of 32 bytes.
Dec(n) == [form |-> "decimal", value |-> n]
Hex32(h) == [form |-> "hex32", value |-> h]

\* main, lines 374-375: args[i].parse::<u64>().unwrap().  The hex text of a
\* 32-byte hash is 64 characters long and is no u64 literal.
ParseU64(tok) == IF tok.form = "decimal" THEN tok.value ELSE ParsePanic

\* main, lines 376-378: hex::decode followed by copy_from_slice into
\* [u8; 32], which panics unless exactly 32 bytes were decoded; a u64 literal
\* has at most 20 characters.
HexDecode32(tok) == IF tok.form = "hex32" THEN tok.value ELSE ParsePanic

\* The argument vectors the process is started with: none, two heights (the
\* usage comment at line 370), and a hash with two heights in either order.
ArgVectors ==
    {<< >>}
    \cup {<< Dec(a), Dec(b) >> : a \in U64, b \in U64}
    \cup {<< Hex32(h), Dec(a), Dec(b) >> :
             h \in HashValues, a \in U64, b \in U64}
    \cup {<< Dec(a), Dec(b), Hex32(h) >> :
             h \in HashValues, a \in U64, b \in U64}

\* ------------------------------------------------------------------- Init
EmptyContract == [h \in U64 |-> ZeroHash]

\* run is called on an operator that new() has still to construct.
InitLoop ==
    /\ mode = "loop"
    /\ pc = "new"
    /\ entry = "run"
    /\ args = << >>
    /\ settings \in Settings
    /\ contract_latest_block \in U64
    /\ \E x \in Hashes :
         contract_header_hash =
            [EmptyContract EXCEPT ![contract_latest_block] = x]
    /\ contract_skip_max \in U64
    /\ chain_head \in U64
    /\ trusted_hash = Unset
    /\ current_block_input = Unset
    /\ target_block_input = Unset

\* create_proof is called on a constructed operator.
InitManual ==
    /\ mode = "manual"
    /\ pc = "create_proof"
    /\ entry = "create_proof"
    /\ args = << >>
    /\ settings \in {s \in Settings :
                       ~RejectedByExpect(s) /\ FALSE \in ClientRejects(s)}
    /\ contract_latest_block = 0
    /\ contract_header_hash = [EmptyContract EXCEPT ![0] = ChainHash(0)]
    /\ contract_skip_max = 1
    /\ chain_head = 0
    /\ trusted_hash \in HashValues
    /\ current_block_input \in U64
    /\ target_block_input \in U64

\* The process is started: main, line 368.
InitMain ==
    /\ mode = "main"
    /\ pc = "main"
    /\ entry = "main"
    /\ args \in ArgVectors
    /\ settings \in Settings
    /\ contract_latest_block = 0
    /\ contract_header_hash = [EmptyContract EXCEPT ![0] = ChainHash(0)]
    /\ contract_skip_max = 1
    /\ chain_head = 0
    /\ trusted_hash = Unset
    /\ current_block_input = Unset
    /\ target_block_input = Unset

Init ==
    /\ InitLoop \/ InitManual \/ InitMain
    /\ env_steps = 0
    /\ skip_max = Unset
    /\ current_block = Unset
    /\ expected_header = Unset
    /\ contract_current_header = Unset
    /\ latest_block = Unset
    /\ max_end_block = Unset
    /\ target_block = Unset
    /\ submission = NoRequest
    /\ attempts = 0
    /\ slept = FALSE
    /\ after_failure = FALSE
    /\ calls = {}
    /\ log = {}

\* A panic: the process is gone.
Halt(reason) ==
    /\ pc' = "halted"
    /\ log' = log \cup {reason}

\* ---------------------------------------------------------- process entry
\* main, lines 372-385: the three positional arguments are read as
\* (trusted height, target height, hex of the trusted hash).
main ==
    /\ mode = "main" /\ pc = "main"
    /\ IF Len(args) < 3
       THEN /\ Halt("panic: Expected a third argument")
            /\ UNCHANGED << trusted_hash, current_block_input,
                            target_block_input >>
       ELSE LET trusted == ParseU64(args[1])
                height == ParseU64(args[2])
                bytes == HexDecode32(args[3])
            IN  IF ParsePanic \in {trusted, height, bytes}
                THEN /\ Halt("panic: invalid argument")
                     /\ UNCHANGED << trusted_hash, current_block_input,
                                     target_block_input >>
                ELSE /\ trusted_hash' = bytes
                     /\ current_block_input' = trusted
                     /\ target_block_input' = height
                     /\ pc' = "new"
                     /\ log' = log
    /\ UNCHANGED << mode, env_vars, skip_max, current_block, check_vars,
                    latest_block, max_end_block, target_block, start_vars,
                    submission, attempts, slept, after_failure, calls >>

\* TendermintXOperator::new and get_config, lines 41-89; then the caller goes
\* on (main, line 388, calls create_proof; the loop's caller calls run).
new ==
    /\ pc = "new"
    /\ \E rejected \in ClientRejects(settings) :
         IF RejectedByExpect(settings) \/ rejected
         THEN /\ Halt("panic: configuration")
              /\ mode' = mode
         ELSE /\ log' = log
              /\ IF mode = "loop"
                 THEN mode' = mode /\ pc' = "run"
                 ELSE mode' = "manual" /\ pc' = "create_proof"
    /\ UNCHANGED << env_vars, skip_max, current_block, check_vars,
                    latest_block, max_end_block, target_block, input_vars,
                    submission, attempts, slept, after_failure, calls >>

\* ------------------------------------------------------------ loop mode
\* run, line 227: skip_max is read once, before the loop.
run_skip_max ==
    /\ mode = "loop" /\ pc = "run"
    /\ calls' = calls \cup {"contract.skip_max"}
    /\ \/ /\ skip_max' = contract_skip_max
          /\ pc' = "latest_block"
          /\ log' = log
       \/ /\ skip_max' = skip_max
          /\ Halt("panic: unwrap on contract read")
    /\ UNCHANGED << mode, env_vars, current_block, check_vars, latest_block,
                    max_end_block, target_block, input_vars,
                    submission, attempts, slept, after_failure >>

run_latest_block_Unchecked ==
    /\ mode = "loop" /\ pc = "latest_block"
    /\ calls' = {"contract.latest_block"}
    /\ submission' = NoRequest
    /\ attempts' = 0
    /\ expected_header' = Unset
    /\ contract_current_header' = Unset
    /\ latest_block' = Unset
    /\ max_end_block' = Unset
    /\ target_block' = Unset
    /\ \/ /\ current_block' = contract_latest_block
          /\ pc' = "latest_header"
          /\ log' = {}
       \/ /\ current_block' = Unset
          /\ pc' = "halted"
          /\ log' = {"panic: unwrap on contract read"}
    /\ UNCHANGED << mode, env_vars, skip_max, input_vars, slept, after_failure >>

\* run, line 229: top of the loop; the locals of the previous iteration are
\* out of scope.
run_latest_block ==
    /\ mode = "loop" /\ pc = "latest_block"
    /\ calls' = {"contract.latest_block"}
    /\ submission' = NoRequest
    /\ attempts' = 0
    /\ expected_header' = Unset
    /\ contract_current_header' = Unset
    /\ latest_block' = Unset
    /\ max_end_block' = Unset
    /\ target_block' = Unset
    /\ \/ /\ current_block' = contract_latest_block
          /\ pc' = "is_consistent"
          /\ log' = {}
       \/ /\ current_block' = Unset
          /\ pc' = "halted"
          /\ log' = {"panic: unwrap on contract read"}
    /\ UNCHANGED << mode, env_vars, skip_max, input_vars, slept, after_failure >>

HeaderMismatch_OnlyMissing(expected, stored) == stored = ZeroHash

\* is_consistent, line 208: the two hashes differ.
HeaderMismatch(expected, stored) == expected # stored

\* is_consistent, lines 197-202: the source chain's header at current_block.
is_consistent_fetch ==
    /\ mode = "loop" /\ pc = "is_consistent"
    /\ calls' = calls \cup {"data_fetcher.get_signed_header_from_number"}
    /\ \E r \in get_signed_header_from_number(current_block) :
         IF r = FetchPanic
         THEN /\ expected_header' = expected_header
              /\ Halt("panic: header fetch")
         ELSE /\ expected_header' = r
              /\ pc' = "is_consistent_compare"
              /\ log' = log
    /\ UNCHANGED << mode, env_vars, skip_max, current_block,
                    contract_current_header, latest_block, max_end_block,
                    target_block, input_vars, submission,
                    attempts, slept, after_failure >>

\* is_consistent, lines 203-217: the contract's hash at current_block, and the
\* comparison; a mismatch panics.
is_consistent_compare ==
    /\ mode = "loop" /\ pc = "is_consistent_compare"
    /\ calls' = calls \cup {"contract.block_height_to_header_hash"}
    /\ \/ /\ contract_current_header' = contract_header_hash[current_block]
          /\ IF HeaderMismatch(expected_header, contract_header_hash[current_block])
             THEN Halt("panic: header mismatch")
             ELSE /\ pc' = "latest_header"
                  /\ log' = log
       \/ /\ contract_current_header' = contract_current_header
          /\ Halt("panic: unwrap on contract read")
    /\ UNCHANGED << mode, env_vars, skip_max, current_block, expected_header,
                    latest_block, max_end_block, target_block, input_vars,
                    submission, attempts, slept, after_failure >>

\* run, lines 237-241: the head of the chain and the largest end block.
run_latest_header ==
    /\ mode = "loop" /\ pc = "latest_header"
    /\ calls' = calls \cup {"data_fetcher.get_latest_signed_header"}
    /\ \E r \in get_latest_signed_header :
         IF r = FetchPanic
         THEN /\ UNCHANGED << latest_block, max_end_block >>
              /\ Halt("panic: header fetch")
         ELSE /\ latest_block' = r
              /\ \E sum \in AddU64(current_block, skip_max) :
                   IF sum = ArithPanic
                   THEN /\ max_end_block' = max_end_block
                        /\ Halt("panic: arithmetic overflow")
                   ELSE /\ max_end_block' = Min(r, sum)
                        /\ pc' = "find_block"
                        /\ log' = log
    /\ UNCHANGED << mode, env_vars, skip_max, current_block, check_vars,
                    target_block, input_vars, submission,
                    attempts, slept, after_failure >>

\* run, lines 243-250 and 261: the target block and the choice between step
\* and skip.
run_find_block ==
    /\ mode = "loop" /\ pc = "find_block"
    /\ calls' = calls \cup {"data_fetcher.find_block_to_request"}
    /\ \E t \in find_block_to_request(current_block, max_end_block) :
         /\ target_block' = t
         /\ \E d \in SubU64(t, current_block) :
              IF d = ArithPanic
              THEN Halt("panic: arithmetic overflow")
              ELSE /\ pc' = IF d = 1 THEN "request_step" ELSE "request_skip"
                   /\ log' = log \cup {"Current block", "Target block"}
    /\ UNCHANGED << mode, env_vars, skip_max, current_block, check_vars,
                    latest_block, max_end_block, input_vars,
                    submission, attempts, slept, after_failure >>

\* The call of submit_platform_request reaches the proof network.
Submit(req, trusted, target) ==
    /\ calls' = calls \cup {"client.submit_platform_request"}
    /\ submission' = Submission(req, trusted, target)
    /\ attempts' = Bump(attempts)
    /\ slept' = FALSE
    /\ after_failure' = after_failure

request_trusted_header_hash_AtLatest(trusted_block) ==
    contract_header_hash[contract_latest_block]

\* request_step, lines 92-96, and request_skip, lines 138-142: the trusted
\* hash is the contract's stored hash at the trusted block, read again here.
request_trusted_header_hash(trusted_block) ==
    contract_header_hash[trusted_block]

\* request_step, lines 92-112: the trusted hash is read from the contract,
\* the payloads are built and the request is submitted.
request_step ==
    /\ mode = "loop" /\ pc = "request_step"
    /\ \/ /\ Submit(StepRequest(current_block,
                                request_trusted_header_hash(current_block)),
                    current_block, target_block)
          /\ pc' = "request_step_result"
          /\ log' = log
       \/ /\ UNCHANGED << submission, attempts, slept, after_failure >>
          /\ calls' = calls \cup {"contract.block_height_to_header_hash"}
          /\ Halt("panic: unwrap on contract read")
    /\ UNCHANGED << mode, env_vars, skip_max, current_block, check_vars,
                    latest_block, max_end_block, target_block, input_vars >>

request_step_result_Retry ==
    /\ mode = "loop" /\ pc = "request_step_result"
    /\ \/ /\ SubmitCanSucceed
          /\ log' = log \cup {"Step request submitted"}
          /\ after_failure' = after_failure
          /\ pc' = "sleep"
       \/ /\ log' = log \cup {"Step request failed"}
          /\ after_failure' = TRUE
          /\ pc' = "request_step"
    /\ UNCHANGED << mode, env_vars, skip_max, current_block, check_vars,
                    latest_block, max_end_block, target_block, input_vars,
                    submission, attempts, slept, calls >>

\* run, lines 252-260: the outcome of request_step.
request_step_result ==
    /\ mode = "loop" /\ pc = "request_step_result"
    /\ \/ /\ SubmitCanSucceed
          /\ log' = log \cup {"Step request submitted"}
          /\ after_failure' = after_failure
          /\ pc' = "sleep"
       \/ /\ log' = log \cup {"Step request failed"}
          /\ after_failure' = TRUE
          /\ pc' = "latest_block"
    /\ UNCHANGED << mode, env_vars, skip_max, current_block, check_vars,
                    latest_block, max_end_block, target_block, input_vars,
                    submission, attempts, slept, calls >>

\* request_skip, lines 138-161.
request_skip ==
    /\ mode = "loop" /\ pc = "request_skip"
    /\ \/ /\ Submit(SkipRequest(current_block,
                                request_trusted_header_hash(current_block),
                                target_block),
                    current_block, target_block)
          /\ pc' = "request_skip_result"
          /\ log' = log
       \/ /\ UNCHANGED << submission, attempts, slept, after_failure >>
          /\ calls' = calls \cup {"contract.block_height_to_header_hash"}
          /\ Halt("panic: unwrap on contract read")
    /\ UNCHANGED << mode, env_vars, skip_max, current_block, check_vars,
                    latest_block, max_end_block, target_block, input_vars >>

\* run, lines 263-271: the outcome of request_skip.
request_skip_result ==
    /\ mode = "loop" /\ pc = "request_skip_result"
    /\ \/ /\ SubmitCanSucceed
          /\ log' = log \cup {"Skip request submitted"}
          /\ after_failure' = after_failure
          /\ pc' = "sleep"
       \/ /\ log' = log \cup {"Skip request failed"}
          /\ after_failure' = TRUE
          /\ pc' = "latest_block"
    /\ UNCHANGED << mode, env_vars, skip_max, current_block, check_vars,
                    latest_block, max_end_block, target_block, input_vars,
                    submission, attempts, slept, calls >>

\* run, line 274: the sleep between two iterations.
run_sleep ==
    /\ mode = "loop" /\ pc = "sleep"
    /\ slept' = TRUE
    /\ after_failure' = FALSE
    /\ pc' = "latest_block"
    /\ UNCHANGED << mode, env_vars, skip_max, current_block, check_vars,
                    latest_block, max_end_block, target_block, input_vars,
                    submission, attempts, calls, log >>

\* ---------------------------------------------------------- manual mode
InvalidBlockInput_Strict(current, target) == current > target

\* create_proof, line 284.
InvalidBlockInput(current, target) == current >= target

trusted_header_hash_2_FromContract ==
    contract_header_hash[current_block_input]

\* request_step_2, line 117, and request_skip_2, line 172:
\* let trusted_header_hash = trusted_hash.
trusted_header_hash_2 == trusted_hash

\* create_proof, lines 284-353, up to the call of submit_platform_request in
\* request_step_2 (117-131) or request_skip_2 (172-190).
create_proof ==
    /\ mode = "manual" /\ pc = "create_proof"
    /\ IF InvalidBlockInput(current_block_input, target_block_input)
       THEN /\ log' = log \cup {"Invalid block input"}
            /\ pc' = "returned"
            /\ UNCHANGED << current_block, target_block, submission,
                            attempts, slept, after_failure, calls >>
       ELSE /\ current_block' = current_block_input
            /\ target_block' = target_block_input
            /\ log' = log \cup {"Current block", "Target block"}
            /\ \E d \in SubU64(target_block_input, current_block_input) :
                 IF d = ArithPanic
                 THEN /\ pc' = "halted"
                      /\ UNCHANGED << submission, attempts, slept, after_failure,
                                      calls >>
                 ELSE IF d = 1
                 THEN /\ Submit(StepRequest_2(trusted_header_hash_2,
                                              current_block_input),
                                current_block_input, target_block_input)
                      /\ pc' = "request_step_2"
                 ELSE /\ Submit(SkipRequest_2(trusted_header_hash_2,
                                              current_block_input,
                                              target_block_input),
                                current_block_input, target_block_input)
                      /\ pc' = "request_skip_2"
    /\ UNCHANGED << mode, env_vars, skip_max, check_vars, latest_block,
                    max_end_block, input_vars >>

request_step_2_Retry ==
    /\ mode = "manual" /\ pc = "request_step_2"
    /\ \/ /\ SubmitCanSucceed
          /\ log' = log \cup {"request____start<id>request____end",
                                "Step request submitted"}
          /\ pc' = "returned"
       \/ /\ log' = log \cup {"Step request failed"}
          /\ pc' = "create_proof"
    /\ UNCHANGED << mode, env_vars, skip_max, current_block, check_vars,
                    latest_block, max_end_block, target_block, input_vars,
                    submission, attempts, slept, after_failure, calls >>

\* create_proof, lines 328-337: the outcome of request_step_2.
request_step_2 ==
    /\ mode = "manual" /\ pc = "request_step_2"
    /\ \/ /\ SubmitCanSucceed
          /\ log' = log \cup {"request____start<id>request____end",
                                "Step request submitted"}
       \/ log' = log \cup {"Step request failed"}
    /\ pc' = "returned"
    /\ UNCHANGED << mode, env_vars, skip_max, current_block, check_vars,
                    latest_block, max_end_block, target_block, input_vars,
                    submission, attempts, slept, after_failure, calls >>

\* create_proof, lines 340-352: the outcome of request_skip_2.
request_skip_2 ==
    /\ mode = "manual" /\ pc = "request_skip_2"
    /\ \/ /\ SubmitCanSucceed
          /\ log' = log \cup {"request____start<id>request____end",
                                "Skip request submitted"}
       \/ log' = log \cup {"Skip request failed"}
    /\ pc' = "returned"
    /\ UNCHANGED << mode, env_vars, skip_max, current_block, check_vars,
                    latest_block, max_end_block, target_block, input_vars,
                    submission, attempts, slept, after_failure, calls >>

\* ---------------------------------------------------------- environment
op_vars == << mode, pc, skip_max, current_block, check_vars, latest_block,
              max_end_block, target_block, input_vars, submission,
              attempts, slept, after_failure, calls, log >>

Running == pc \notin {"halted", "returned"}

\* The contract accepts a proof (of this operator or of another party): its
\* synced height advances and the header hash of the new height is stored.
contract_update ==
    /\ Running /\ env_steps < MaxEnvSteps
    /\ \E h \in U64, x \in Hashes :
         /\ h > contract_latest_block
         /\ contract_latest_block' = h
         /\ contract_header_hash' = [contract_header_hash EXCEPT ![h] = x]
    /\ env_steps' = env_steps + 1
    /\ UNCHANGED << contract_skip_max, chain_head, op_vars >>

\* The contract's max-skip value is changed.
contract_set_skip_max ==
    /\ Running /\ env_steps < MaxEnvSteps
    /\ \E m \in U64 :
         /\ m # contract_skip_max
         /\ contract_skip_max' = m
    /\ env_steps' = env_steps + 1
    /\ UNCHANGED << contract_latest_block, contract_header_hash, chain_head,
                    op_vars >>

\* The source chain produces a block.
chain_grow ==
    /\ Running /\ env_steps < MaxEnvSteps
    /\ chain_head < MaxU64
    /\ chain_head' = chain_head + 1
    /\ env_steps' = env_steps + 1
    /\ UNCHANGED << contract_latest_block, contract_header_hash,
                    contract_skip_max, op_vars >>

\* ------------------------------------------------------------------ Next
Next ==
    \/ main
    \/ new
    \/ run_skip_max
    \/ run_latest_block
    \/ is_consistent_fetch
    \/ is_consistent_compare
    \/ run_latest_header
    \/ run_find_block
    \/ request_step
    \/ request_step_result
    \/ request_skip
    \/ request_skip_result
    \/ run_sleep
    \/ create_proof
    \/ request_step_2
    \/ request_skip_2
    \/ contract_update
    \/ contract_set_skip_max
    \/ chain_grow

Spec == Init /\ [][Next]_vars

\* The steps of the operator itself: the runtime resumes the task whenever the
\* awaited collaborator has answered.
OperatorNext ==
    \/ main \/ new
    \/ run_skip_max \/ run_latest_block \/ is_consistent_fetch
    \/ is_consistent_compare \/ run_latest_header \/ run_find_block
    \/ request_step \/ request_step_result \/ request_skip
    \/ request_skip_result \/ run_sleep
    \/ create_proof \/ request_step_2 \/ request_skip_2

FairSpec == Spec /\ WF_vars(OperatorNext)

TypeOK ==
    /\ mode \in {"loop", "manual", "main"}
    /\ entry \in {"run", "create_proof", "main"}
    /\ settings \in Settings
    /\ attempts \in 0 .. MaxAttempts
    /\ after_failure \in BOOLEAN
    /\ skip_max \in U64 \cup {Unset}
    /\ current_block \in U64 \cup {Unset}
    /\ latest_block \in U64 \cup {Unset}
    /\ max_end_block \in U64 \cup {Unset}
    /\ target_block \in U64 \cup {Unset}
    /\ expected_header \in HashValues \cup {Unset}
    /\ contract_current_header \in HashValues \cup {Unset}

\* ---------------------------------------------------------------- claims
Submitted == submission.kind # "none"
LoopSubmitted == mode = "loop" /\ Submitted

\* C1: every Step request that is issued (by run or by create_proof) has
\* target_height - trusted_height = 1, and every Skip request that is issued
\* has target_height - trusted_height > 1.
C1_StepIffDistanceOne ==
    /\ submission.kind = "Step"
         => submission.target_block - submission.trusted_block = 1
    /\ submission.kind = "Skip"
         => submission.target_block - submission.trusted_block > 1

\* C3: the target of every request of the loop satisfies
\* current_height < target_height <= min(chain_head_height,
\* current_height + max_skip), with the heights as read in that cycle.
C3_TargetInRange ==
    LoopSubmitted =>
        /\ submission.trusted_block = current_block
        /\ current_block < submission.target_block
        /\ submission.target_block <= Min(latest_block,
                                          current_block + skip_max)

\* C4: in a cycle of the loop in which the synced height read is greater than
\* or equal to the chain head read, no request is submitted and the loop goes
\* directly to the sleep.
C4_NoRequestWhenCaughtUp ==
    ( /\ mode = "loop"
      /\ latest_block # Unset
      /\ current_block >= latest_block
      /\ pc # "halted" )
    => /\ ~Submitted
       /\ pc \in {"find_block", "sleep"}

\* C5: when the loop is back at its top after a submission attempt, it has
\* slept since that attempt, whether the attempt succeeded or failed.
C5_SleepAfterEveryAttempt ==
    (mode = "loop" /\ pc = "latest_block" /\ attempts > 0) => slept

\* C6: once its loop is entered (skip_max is read), run terminates only by
\* the halt on a header mismatch.
C6_OnlyMismatchTerminates ==
    (mode = "loop" /\ pc = "halted" /\ skip_max # Unset)
    => "panic: header mismatch" \in log

\* C2: when the hash the loop reads from the contract at its current block
\* differs from the source chain's hash at that height, the process halts, no
\* request is submitted in that cycle and nothing happens afterwards; when the
\* two are equal the check changes nothing and the cycle goes on.
C2_MismatchHalts ==
    [][ /\ ( /\ mode = "loop"
             /\ pc = "is_consistent_compare"
             /\ contract_current_header' # Unset )
           => /\ contract_current_header' = contract_header_hash[current_block]
              /\ expected_header = ChainHash(current_block)
              /\ IF expected_header # contract_current_header'
                 THEN /\ pc' = "halted"
                      /\ submission' = NoRequest
                 ELSE /\ pc' = "latest_header"
                      /\ UNCHANGED << mode, env_vars, skip_max, current_block,
                                      expected_header, latest_block,
                                      max_end_block, target_block,
                                      input_vars, submission, attempts,
                                      slept, after_failure, log >>
        /\ pc = "halted" => UNCHANGED vars
      ]_vars

C2_Witness ==
    /\ mode = "loop" /\ pc = "halted"
    /\ contract_current_header # Unset
    /\ expected_header # contract_current_header

\* C7: create_proof called with trusted_height >= target_height makes no call
\* to the proof network and returns without terminating the process.
C7_InvalidInputNotSubmitted ==
    (mode = "manual" /\ current_block_input >= target_block_input)
    => /\ ~Submitted
       /\ attempts = 0
       /\ "client.submit_platform_request" \notin calls
       /\ pc \in {"create_proof", "returned"}

C7_Witness ==
    /\ mode = "manual" /\ pc = "returned"
    /\ current_block_input >= target_block_input

\* C8: in every cycle of the loop the consistency check of the synced height
\* read in that cycle has been made and has passed before the chain head is
\* fetched, before a target is selected and before a request is submitted.
C8_CheckBeforeScheduling ==
    ( /\ mode = "loop"
      /\ \/ pc \in {"latest_header", "find_block", "request_step",
                    "request_step_result", "request_skip",
                    "request_skip_result", "sleep"}
         \/ latest_block # Unset
         \/ target_block # Unset
         \/ Submitted
         \/ calls \cap {"data_fetcher.get_latest_signed_header",
                        "data_fetcher.find_block_to_request",
                        "client.submit_platform_request"} # {} )
    => /\ current_block # Unset
       /\ expected_header = ChainHash(current_block)
       /\ contract_current_header = expected_header
       /\ {"data_fetcher.get_signed_header_from_number",
           "contract.block_height_to_header_hash"} \subseteq calls

C8_Witness == mode = "loop" /\ pc = "sleep" /\ Submitted

\* C9: create_proof always returns to its caller, for every input and every
\* outcome of the submission; it calls the proof network at most once, a
\* failed submission is not retried and never terminates the process.
C9_ManualReturnsAfterOneAttempt ==
    /\ [](mode = "manual" => (pc # "halted" /\ attempts <= 1))
    /\ [][ ( /\ mode = "manual"
             /\ pc \in {"request_step_2", "request_skip_2"}
             /\ pc' # pc )
           => (pc' = "returned" /\ attempts' = attempts) ]_vars
    /\ (mode = "manual") ~> (pc = "returned")

C9_Witness ==
    /\ mode = "manual" /\ pc = "returned"
    /\ attempts = 1
    /\ "Step request failed" \in log

\* The u64 read back from two big-endian digits.
FromBE(hi, lo) == hi * ByteBase + lo

\* C10: create_proof reads nothing from the contract and nothing from the
\* source chain and runs no consistency check; the proof network is the only
\* collaborator it calls, and the submitted request carries exactly the
\* caller's trusted height, trusted header hash and target height.
C10_ManualUsesOnlyCallerValues ==
    mode = "manual" =>
        /\ calls \subseteq {"client.submit_platform_request"}
        /\ expected_header = Unset
        /\ contract_current_header = Unset
        /\ skip_max = Unset /\ latest_block = Unset /\ max_end_block = Unset
        /\ Submitted =>
            LET in == submission.request.input
                fargs == submission.request.function_data.args
            IN  /\ FromBE(in[1], in[2]) = current_block_input
                /\ in[3] = trusted_hash
                /\ fargs[1] = current_block_input
                /\ IF submission.kind = "Skip"
                   THEN /\ Len(in) = 5 /\ Len(fargs) = 2
                        /\ FromBE(in[4], in[5]) = target_block_input
                        /\ fargs[2] = target_block_input
                   ELSE /\ Len(in) = 3 /\ Len(fargs) = 1
                        /\ current_block_input + 1 = target_block_input

C10_Witness ==
    /\ mode = "manual" /\ pc = "returned"
    /\ submission.kind = "Skip"
    /\ trusted_hash # ZeroHash

\* C11: after every successful submission, by run as well as by create_proof
\* and for a Step as well as for a Skip, the log holds the request identifier
\* between the start and end sentinel markers.
C11_IdentifierBetweenSentinels ==
    (log \cap {"Step request submitted", "Skip request submitted"} # {})
    => "request____start<id>request____end" \in log

\* C12: the process entry offers both modes: started without positional
\* arguments it runs the loop, and started with the three arguments (hex of
\* the trusted hash, trusted height, target height) it runs create_proof on
\* these three values.
C12_EntryOffersBothModes ==
    (entry = "main" /\ pc # "main") =>
        /\ Len(args) = 0 => mode = "loop"
        /\ \A h \in HashValues, a \in U64, b \in U64 :
             args = << Hex32(h), Dec(a), Dec(b) >> =>
                /\ trusted_hash = h
                /\ current_block_input = a
                /\ target_block_input = b

\* C13: with a required setting missing or malformed the process terminates
\* at the construction of the operator: no collaborator is ever called, no
\* loop iteration starts and nothing is submitted (in the behaviours that
\* construct the operator).
C13_BadSettingStopsAtConstruction ==
    (settings # "valid" /\ entry \in {"main", "run"}) =>
        /\ pc \in {"main", "new", "halted"}
        /\ calls = {}
        /\ ~Submitted /\ attempts = 0
        /\ skip_max = Unset /\ current_block = Unset

\* C14: in every iteration of the loop that computes the upper bound
\* current_height + max_skip, max_skip has been read from the contract in
\* that iteration.
C14_SkipMaxReadEveryIteration ==
    (mode = "loop" /\ max_end_block # Unset)
    => "contract.skip_max" \in calls

\* C15: loop mode carries no request state across cycles and keeps no retry
\* counter: every cycle, the one after a failed submission included, starts
\* by reading the synced height from the contract, keeps that height until
\* the next cycle, and submits at most one request, whose trusted height is
\* that height and whose trusted hash is the hash the contract stores at it
\* when the request is built.
C15_NoStateAcrossCycles ==
    [][ mode = "loop" =>
          /\ (pc = "latest_block" /\ pc' \notin {"latest_block", "halted"})
                => current_block' = contract_latest_block
          /\ (pc # "latest_block" /\ pc' # "halted")
                => current_block' = current_block
          /\ ( /\ log' # log
               /\ log' \cap {"Step request failed", "Skip request failed"} # {} )
                => pc' = "latest_block"
          /\ attempts' # attempts /\ attempts' # 0
                => /\ attempts' = 1
                   /\ "contract.latest_block" \in calls
                   /\ submission'.trusted_block = current_block
                   /\ submission'.request.input[3]
                        = contract_header_hash[current_block] ]_vars

\* C15 witness: a request submitted in the cycle that follows a failed
\* submission.
C15_Witness == LoopSubmitted /\ after_failure /\ attempts = 1

\* C16: request building is a function of (trusted height, trusted hash,
\* target height): a submitted Step carries the step function identifier and
\* the packed fields (trusted height, trusted hash), a submitted Skip the skip
\* function identifier and the packed fields (trusted height, trusted hash,
\* target height); the fields are read back from the packed tuple; and for
\* equal inputs the builders of the loop and the builders of create_proof
\* hand the same chain id, address, call payload, function identifier and
\* public input to the proof network.
C16_BuildersAgree ==
    Submitted =>
         LET r == submission.request
             t == submission.trusted_block
             g == submission.target_block
         IN  /\ r.chain_id = "CHAIN_ID" /\ r.address = "CONTRACT_ADDRESS"
             /\ FromBE(r.input[1], r.input[2]) = t
             /\ r.input[3] \in HashValues
             /\ mode = "manual" => r.input[3] = trusted_hash
             /\ submission.kind = "Step" =>
                   /\ r.function_id = "STEP_FUNCTION_ID"
                   /\ r.function_data = [call |-> "step", args |-> << t >>]
                   /\ Len(r.input) = 3
                   /\ r = StepRequest(t, r.input[3])
                   /\ r = StepRequest_2(r.input[3], t)
             /\ submission.kind = "Skip" =>
                   /\ r.function_id = "SKIP_FUNCTION_ID"
                   /\ r.function_data = [call |-> "skip", args |-> << t, g >>]
                   /\ Len(r.input) = 5
                   /\ FromBE(r.input[4], r.input[5]) = g
                   /\ r = SkipRequest(t, r.input[3], g)
                   /\ r = SkipRequest_2(r.input[3], t, g)
             /\ \A h \in HashValues :
                   /\ StepRequest(t, h) = StepRequest_2(h, t)
                   /\ \A b \in U64 :
                        SkipRequest(t, h, b) = SkipRequest_2(h, t, b)

\* C16 witness: a Skip of create_proof whose target height fills the high
\* digit of its packed image.
C16_Witness ==
    /\ submission.kind = "Skip" /\ mode = "manual"
    /\ submission.target_block >= ByteBase
    /\ submission.trusted_block # submission.target_block

\* C17: in loop mode the trusted hash of every submitted request is the
\* source chain's header hash at the trusted height: the hash the builder
\* reads from the contract is the hash the consistency check of that cycle
\* compared with the source chain, also when the contract has advanced
\* between the two reads.
C17_TrustedHashIsChainHash ==
    LoopSubmitted =>
        /\ submission.trusted_block = current_block
        /\ submission.request.input[3] = ChainHash(current_block)
        /\ submission.request.input[3] = expected_header
        /\ submission.request.input[3] = contract_current_header

\* C17 witness: a request of the loop, with the contract's synced height
\* advanced past the height the cycle read.
C17_Witness ==
    /\ LoopSubmitted
    /\ env_steps > 0
    /\ contract_latest_block > current_block
    /\ contract_header_hash[contract_latest_block] # contract_current_header

\* C18: the u64 arithmetic of loop mode stays in range: when the upper bound
\* is computed current_block + skip_max does not exceed the largest u64, and
\* target_block - current_block is never evaluated with target_block below
\* current_block; no step of the loop wraps around or aborts on arithmetic.
C18_ArithmeticInRange ==
    mode = "loop" =>
        /\ "panic: arithmetic overflow" \notin log
        /\ max_end_block # Unset => current_block + skip_max <= MaxU64
        /\ target_block # Unset => target_block >= current_block

\* The halts the premise of C19 sets aside: a failed consistency check and a
\* failed collaborator read or construction.
ExcusedHalts ==
    {"panic: header mismatch", "panic: unwrap on contract read",
     "panic: header fetch", "panic: configuration"}

\* C19: under weak fairness of the operator's steps, loop mode always
\* eventually reaches the consistency check again, unless a consistency check
\* or a collaborator read has failed; it never comes to rest anywhere else.
C19_LoopMakesProgress ==
    []<>( mode = "loop" =>
            \/ pc = "is_consistent"
            \/ pc = "halted" /\ log \cap ExcusedHalts # {} )

====
